---- MODULE Spec2Model ----
(***************************************************************************)
(* Order service (services/rust-order-service/src/main.rs).                *)
(*                                                                         *)
(* One task per inbound HTTP request.  A task suspends at every external   *)
(* call (user-service, inventory-service, MongoDB, NATS); the collaborator *)
(* answers in a step of its own, and the handler then runs to its next     *)
(* await.  Money is counted in cents, time in nanoseconds.                 *)
(***************************************************************************)
EXTENDS Integers, Sequences, FiniteSets, Bags, TLC

\* ------------------------------------------------------------------ bounds

\* Number of HTTP requests the service receives in one behaviour.
MaxRequests == 2

\* Number of requests that may be in flight at the same time.
MaxInFlight == 2

\* ------------------------------------------------------------ environment

\* Users the user-service knows; every other id gets 404 from it.
KnownUsers == {1}
UserIds == {1, 2}

\* What a call through reqwest may come to: the send fails, or a response with
\* a status and a JSON body arrives.
SendError(cause) == [sent |-> FALSE, cause |-> cause]
HttpResponse(status, body) == [sent |-> TRUE, status |-> status, body |-> body]

\* What reqwest may report of a call that did not complete.
TransportCauses == {"connection refused", "dns error"}

\* GET {user_service_url}/api/users/{id}
UserReplies(uid) ==
  {SendError(c) : c \in TransportCauses} \cup {HttpResponse(500, <<>>)}
  \cup (IF uid \in KnownUsers
        THEN {HttpResponse(200, [id |-> uid, name |-> "alice", email |-> "a@x.io"]),
              HttpResponse(200, [id |-> uid])}
        ELSE {HttpResponse(404, <<>>)})

\* The inventory-service's catalogue.  The "price" field is optional in the
\* JSON it sends (InventoryItem.price, serde default).
ProductIds == {"p1", "p9"}
KnownProducts == {"p1"}

WidgetBody == [id |-> 1, product_name |-> "widget", sku |-> "W-1", quantity |-> 2,
               location |-> "A"]

InventoryBodies(pid) ==
  {WidgetBody} \cup {WidgetBody @@ [price |-> p] : p \in {-100, 0, 250}}

\* GET {inventory_service_url}/api/inventory/{id}
InventoryReplies(pid) ==
  {SendError(c) : c \in TransportCauses} \cup {HttpResponse(500, <<>>)}
  \cup (IF pid \in KnownProducts
        THEN {HttpResponse(200, b) : b \in InventoryBodies(pid)}
             \cup {HttpResponse(200, [id |-> 1])}
        ELSE {HttpResponse(404, <<>>)})

\* Quantities a caller may send (i32, unchecked by the handlers).
Quantities == {0, 2, 3}

\* Internal cause texts carried by DatabaseError / HttpError / InternalError.
Causes == {"pool timeout", "connection reset"}

\* ----------------------------------------------------------- data model

\* Option<T>: <<>> is None, <<x>> is Some(x).
None == <<>>
Some(x) == <<x>>
IsSome(o) == o # <<>>
Unwrap(o) == o[1]

\* Mutant of is_success: only a client error counts as a refusal.
is_not_client_error(status) == status \notin 400..499

\* status.is_success(): 2xx.
is_success(status) == status >= 200 /\ status < 300

\* response.json::<User>(): every field of User is required.
ParseUser(body) ==
  IF {"id", "name", "email"} \subseteq DOMAIN body
  THEN [ok |-> TRUE, value |-> [id |-> body.id, name |-> body.name, email |-> body.email]]
  ELSE [ok |-> FALSE, cause |-> "missing field"]

\* response.json::<InventoryItem>(): price is #[serde(default)], 0.0 when absent.
ParseInventoryItem(body) ==
  IF {"id", "product_name", "sku", "quantity", "location"} \subseteq DOMAIN body
  THEN [ok |-> TRUE,
        value |-> [id |-> body.id, product_name |-> body.product_name,
                   sku |-> body.sku, quantity |-> body.quantity,
                   location |-> body.location,
                   price |-> IF "price" \in DOMAIN body THEN body.price ELSE 0]]
  ELSE [ok |-> FALSE, cause |-> "missing field"]

\* let price = if inventory_item.price > 0.0 { inventory_item.price } else { 999.99 };
FallbackPrice == 99999

\* Mutant of ResolvePrice: a price of zero is taken as a price.
ResolvePriceNonNegative(inventory_item) ==
  IF inventory_item.price >= 0 THEN inventory_item.price ELSE FallbackPrice

ResolvePrice(inventory_item) ==
  IF inventory_item.price > 0 THEN inventory_item.price ELSE FallbackPrice

\* if inventory_item.quantity < payload.quantity { return Err(..) }
InsufficientStock(inventory_item, requested) == inventory_item.quantity < requested

\* chrono DateTime<Utc> has nanosecond precision, a BSON datetime milliseconds.
NanosPerMilli == 1000000

\* Each reading of Utc::now() is later than the one before by this much.
ClockStep == 400000

\* bson::DateTime::from_chrono: truncation to whole milliseconds.
chrono_datetime_as_bson_datetime(t) == (t \div NanosPerMilli) * NanosPerMilli

\* ObjectId <-> 24 hexadecimal characters.
OidHexLen == 24
HexLower == <<"0","1","2","3","4","5","6","7","8","9","a","b","c","d","e","f">>
HexUpper == <<"0","1","2","3","4","5","6","7","8","9","A","B","C","D","E","F">>

\* Only the low digits of the 12 bytes vary in the model (the counter part).
OidLowDigits == 6

RECURSIVE Pow16(_)
Pow16(k) == IF k = 0 THEN 1 ELSE 16 * Pow16(k - 1)

\* ObjectId::to_string / to_hex: lower-case, zero padded.
oid_to_string(n) ==
  [i \in 1..OidHexLen |->
     IF OidHexLen - i >= OidLowDigits THEN "0"
     ELSE HexLower[((n \div Pow16(OidHexLen - i)) % 16) + 1]]

HexValue(c) ==
  IF \E d \in 1..16 : HexLower[d] = c
  THEN (CHOOSE d \in 1..16 : HexLower[d] = c) - 1
  ELSE IF \E d \in 1..16 : HexUpper[d] = c
       THEN (CHOOSE d \in 1..16 : HexUpper[d] = c) - 1
       ELSE -1

RECURSIVE HexFold(_, _, _)
HexFold(s, i, acc) ==
  IF i > Len(s) THEN acc
  ELSE HexFold(s, i + 1, (acc * 16 + HexValue(s[i])) % Pow16(OidLowDigits))

\* Mutant of parse_str: only the length is checked.
parse_str_length_only(s) ==
  IF Len(s) = OidHexLen
  THEN [ok |-> TRUE, oid |-> HexFold(s, 1, 0)]
  ELSE [ok |-> FALSE, cause |-> "invalid length"]

\* ObjectId::parse_str: Ok(oid) for 24 hex characters of either case, Err otherwise.
parse_str(s) ==
  IF Len(s) # OidHexLen
  THEN [ok |-> FALSE, cause |-> "invalid length"]
  ELSE IF \E i \in 1..Len(s) : HexValue(s[i]) < 0
  THEN [ok |-> FALSE, cause |-> "invalid character"]
  ELSE [ok |-> TRUE, oid |-> HexFold(s, 1, 0)]

\* The store hands out fresh identifiers: the n-th insert gets FirstOid + n - 1.
FirstOid == 10

\* impl Serialize for Order, into a BSON document: "_id" is skipped when None and
\* created_at goes through the BSON datetime helper.
OrderToDocument(o) ==
  [_id |-> o.id,
   user_id |-> o.user_id,
   product_name |-> o.product_name,
   quantity |-> o.quantity,
   total_price |-> o.total_price,
   status |-> o.status,
   created_at |-> chrono_datetime_as_bson_datetime(o.created_at)]

\* impl Deserialize for Order, from a stored document.
DocumentToOrder(d) ==
  [id |-> d._id,
   user_id |-> d.user_id,
   product_name |-> d.product_name,
   quantity |-> d.quantity,
   total_price |-> d.total_price,
   status |-> d.status,
   created_at |-> d.created_at]

\* Mutant of OrderToJson: created_at is written with its full precision.
OrderToJsonNanos(o) ==
  [_id |-> IF IsSome(o.id) THEN Some(oid_to_string(Unwrap(o.id))) ELSE None,
   user_id |-> o.user_id,
   product_name |-> o.product_name,
   quantity |-> o.quantity,
   total_price |-> o.total_price,
   status |-> o.status,
   created_at |-> o.created_at]

\* Json(order): the same Serialize impl, written as JSON; an ObjectId becomes
\* its hexadecimal string.
OrderToJson(o) ==
  [_id |-> IF IsSome(o.id) THEN Some(oid_to_string(Unwrap(o.id))) ELSE None,
   user_id |-> o.user_id,
   product_name |-> o.product_name,
   quantity |-> o.quantity,
   total_price |-> o.total_price,
   status |-> o.status,
   created_at |-> chrono_datetime_as_bson_datetime(o.created_at)]

\* ------------------------------------------------------------- AppError

DatabaseError(cause) == [kind |-> "DatabaseError", cause |-> cause]
NotFound == [kind |-> "NotFound"]
InternalError(msg) == [kind |-> "InternalError", msg |-> msg]
HttpError(msg) == [kind |-> "HttpError", msg |-> msg]
UserNotFound(user_id) == [kind |-> "UserNotFound", user_id |-> user_id]
InsufficientInventory(product, requested, available) ==
  [kind |-> "InsufficientInventory", product |-> product,
   requested |-> requested, available |-> available]

\* format!(fmt, args...)
Format(fmt, args) == [fmt |-> fmt, args |-> args]

\* Mutant of MessageOf: the message of an internal failure carries its cause.
MessageOfWithCause(e) ==
  CASE e.kind = "DatabaseError" -> Format("Database error: {}", <<e.cause>>)
    [] e.kind = "NotFound" -> Format("Order not found", <<>>)
    [] e.kind = "InternalError" -> e.msg
    [] e.kind = "HttpError" -> e.msg
    [] e.kind = "UserNotFound" -> Format("User {} not found", <<e.user_id>>)
    [] e.kind = "InsufficientInventory" ->
         Format("Insufficient inventory for {}: requested {}, available {}",
                <<e.product, e.requested, e.available>>)

\* Mutant of StatusOf: UserNotFound is answered with 404.
StatusOfUserNotFound404(e) ==
  CASE e.kind = "DatabaseError" -> 500
    [] e.kind = "NotFound" -> 404
    [] e.kind = "InternalError" -> 500
    [] e.kind = "HttpError" -> 500
    [] e.kind = "UserNotFound" -> 404
    [] e.kind = "InsufficientInventory" -> 400

StatusOf(e) ==
  CASE e.kind = "DatabaseError" -> 500
    [] e.kind = "NotFound" -> 404
    [] e.kind = "InternalError" -> 500
    [] e.kind = "HttpError" -> 500
    [] e.kind = "UserNotFound" -> 400
    [] e.kind = "InsufficientInventory" -> 400

MessageOf(e) ==
  CASE e.kind = "DatabaseError" -> Format("Database error", <<>>)
    [] e.kind = "NotFound" -> Format("Order not found", <<>>)
    [] e.kind = "InternalError" -> Format("Internal server error", <<>>)
    [] e.kind = "HttpError" -> Format("HTTP request failed", <<>>)
    [] e.kind = "UserNotFound" -> Format("User {} not found", <<e.user_id>>)
    [] e.kind = "InsufficientInventory" ->
         Format("Insufficient inventory for {}: requested {}, available {}",
                <<e.product, e.requested, e.available>>)

\* impl IntoResponse for AppError
into_response(e) == [status |-> StatusOf(e), body |-> [error |-> MessageOf(e)]]

\* Ok((StatusCode::CREATED, Json(order)))
Created(order) == [status |-> 201, body |-> OrderToJson(order)]

\* Ok(Json(value))
OkJson(value) == [status |-> 200, body |-> value]

\* ----------------------------------------------------------------- state

VARIABLES
  store,        \* the "orders" collection: documents in insertion order
  published,    \* messages the NATS server accepted on subject order.created
  metrics,      \* the Prometheus counters
  nats_client,  \* AppState.nats_client: <<>> (None) or <<"client">>
  clock,        \* the next reading of Utc::now()
  task,         \* the bag of tasks in flight: handler, position, payload, locals, calls made so far
  arrived,      \* requests received so far: by the order endpoints (api), by /health and /metrics (ops)
  last,         \* the exchange that ended in the step just taken: request, calls, result, response
  returned      \* the bodies of the 201 responses sent so far

vars == <<store, published, metrics, nats_client, clock, task, arrived, last, returned>>

InFlight == BagToSet(task)

NoExchange ==
  [kind |-> "none", payload |-> None, calls |-> <<>>, result |-> None,
   status |-> 0, body |-> None]

\* Documents an earlier run of the service left in the collection.
EarlierOrders ==
  <<[_id |-> Some(FirstOid), user_id |-> 1, product_name |-> "widget",
     quantity |-> 1, total_price |-> 250, status |-> "pending", created_at |-> 0],
    [_id |-> Some(FirstOid + 1), user_id |-> 2, product_name |-> "mug",
     quantity |-> 2, total_price |-> 300, status |-> "pending", created_at |-> 0]>>

\* main(): the collection starts as the database holds it, empty or not; the
\* NATS client is Some only when NATS_URL is set and the connection succeeds.
Init ==
  /\ store \in {<<>>, EarlierOrders}
  /\ published = <<>>
  /\ metrics = [requests_total |-> 0, orders_created |-> 0, orders_queried |-> 0]
  /\ nats_client \in {None, Some("client")}
  /\ clock = ClockStep
  /\ task = EmptyBag
  /\ arrived = [api |-> 0, ops |-> 0]
  /\ last = NoExchange
  /\ returned = {}

\* A request may arrive: it gets a task of its own.
CanStart ==
  /\ arrived.api + arrived.ops < MaxRequests
  /\ BagCardinality(task) < MaxInFlight

At(t, kind, pc) == t \in InFlight /\ t.kind = kind /\ t.pc = pc

\* The bag of tasks after a request arrived, after task t moved on, after it ended.
Spawn(new) == task (+) SetToBag({new})
Resume(t, new) == (task (-) SetToBag({t})) (+) SetToBag({new})
Reap(t) == task (-) SetToBag({t})

\* A call's entry in the task's record of calls: its name, what came back and
\* whether the handler took that for a success.
Call(step, reply) == [step |-> step, ok |-> TRUE, reply |-> reply]
Failed(step, reply) == [step |-> step, ok |-> FALSE, reply |-> reply]

\* The handler issues the external call `step` and suspends on it.
Begin(kind, payload, local, step) ==
  [kind |-> kind, pc |-> step, payload |-> payload, local |-> local,
   calls |-> <<>>, hung |-> FALSE]

\* The pending call came back with `reply`, a success; the handler goes on to
\* the call `step`.
Suspend(t, reply, local, step) ==
  [t EXCEPT !.pc = step, !.local = local, !.calls = Append(@, Call(t.pc, reply))]

\* Result<Response, AppError>
Ok(response) == [ok |-> TRUE, response |-> response]
Err(e) == [ok |-> FALSE, err |-> e]

\* What a client and the collaborators saw of one request: the handler's
\* result becomes the response (IntoResponse for Result).
Exchange(kind, payload, calls, result) ==
  LET response == IF result.ok THEN result.response ELSE into_response(result.err)
  IN [kind |-> kind, payload |-> payload, calls |-> calls,
      result |-> IF result.ok THEN [ok |-> TRUE] ELSE result,
      status |-> response.status, body |-> response.body]

\* The handler of task t returns Ok(response).
ReturnOk(t, calls, response) ==
  Exchange(t.kind, t.payload, calls, Ok(response))

\* The handler of task t returns Err(e): `?` or an explicit return.
ReturnErr(t, calls, e) ==
  Exchange(t.kind, t.payload, calls, Err(e))

\* A response goes out.
Respond(exchange) ==
  /\ last' = exchange
  /\ returned' = IF exchange.status = 201 THEN returned \cup {exchange.body}
                  ELSE returned

\* No response goes out in this step.
NoResponse ==
  /\ last' = NoExchange
  /\ UNCHANGED returned

\* The task ends: its locals are dropped and the response goes out.
Finish(t, exchange) ==
  /\ task' = Reap(t)
  /\ Respond(exchange)

CallsOk(t, reply) == Append(t.calls, Call(t.pc, reply))
CallsFailed(t, reply) == Append(t.calls, Failed(t.pc, reply))

\* ------------------------------------------------------------- handlers

\* state.metrics.orders_created.inc(); state.metrics.requests_total.inc();
CountCreated(m) ==
  [m EXCEPT !.orders_created = @ + 1, !.requests_total = @ + 1]

\* state.metrics.orders_queried.inc(); state.metrics.requests_total.inc();
CountQueried(m) ==
  [m EXCEPT !.orders_queried = @ + 1, !.requests_total = @ + 1]

\* Mutant of InsertOne: the new document takes the first place of the
\* collection.
InsertOneFirst(coll, order) ==
  <<[OrderToDocument(order) EXCEPT !._id = Some(FirstOid + Len(coll))]>> \o coll

\* collection.insert_one(order): the driver assigns the ObjectId and the
\* document is appended to the collection.
InsertOne(coll, order) ==
  Append(coll, [OrderToDocument(order) EXCEPT !._id = Some(FirstOid + Len(coll))])

InsertedId(coll) == FirstOid + Len(coll)

SimplePayloads ==
  [user_id : {2}, product_name : {"mug"}, quantity : {-1, 0, 2},
   price_per_unit : {150}]

\* create_order, up to collection.insert_one(..).await
create_order(payload) ==
  /\ CanStart
  /\ LET order == [id |-> None,
                   user_id |-> payload.user_id,
                   product_name |-> payload.product_name,
                   quantity |-> payload.quantity,
                   total_price |-> payload.price_per_unit * payload.quantity,
                   status |-> "pending",
                   created_at |-> clock]
     IN task' = Spawn(Begin("create_order", payload, [order |-> order], "insert"))
  /\ clock' = clock + ClockStep
  /\ arrived' = [arrived EXCEPT !.api = @ + 1]
  /\ UNCHANGED <<store, published, metrics, nats_client>>
  /\ NoResponse

\* create_order: insert_one fails, `?` returns DatabaseError.
create_order_insert_failed(t, cause) ==
  /\ At(t, "create_order", "insert")
  /\ Finish(t, ReturnErr(t, CallsFailed(t, [cause |-> cause]), DatabaseError(cause)))
  /\ UNCHANGED <<store, published, metrics, nats_client, clock, arrived>>

\* Mutant of create_order_inserted: the publish is attempted whether or not
\* there is a NATS client.
create_order_inserted_always_publishes(t) ==
  /\ At(t, "create_order", "insert")
  /\ store' = InsertOne(store, t.local.order)
  /\ LET order_id == InsertedId(store)
         created_order == [t.local.order EXCEPT !.id = Some(order_id)]
         event == [event |-> "order.created",
                   order_id |-> oid_to_string(order_id),
                   user_id |-> t.payload.user_id]
     IN task' = Resume(t, Suspend(t, [inserted_id |-> order_id],
                                    [created_order |-> created_order,
                                     event |-> event], "publish"))
  /\ NoResponse
  /\ UNCHANGED <<published, metrics, nats_client, clock, arrived>>

\* create_order: insert_one succeeds; the handler goes on to
\* client.publish(..).await, or to its end when there is no NATS client.
create_order_inserted(t) ==
  /\ At(t, "create_order", "insert")
  /\ store' = InsertOne(store, t.local.order)
  /\ LET order_id == InsertedId(store)
         created_order == [t.local.order EXCEPT !.id = Some(order_id)]
     IN IF IsSome(nats_client)
        THEN LET event == [event |-> "order.created",
                           order_id |-> oid_to_string(order_id),
                           user_id |-> t.payload.user_id]
             IN /\ task' = Resume(t, Suspend(t, [inserted_id |-> order_id],
                                                   [created_order |-> created_order,
                                                    event |-> event], "publish"))
                /\ UNCHANGED metrics /\ NoResponse
        ELSE /\ Finish(t, ReturnOk(t, CallsOk(t, [inserted_id |-> order_id]),
                                   Created(created_order)))
             /\ metrics' = CountCreated(metrics)
  /\ UNCHANGED <<published, nats_client, clock, arrived>>

\* Mutant of create_order_published: the event is sent a second time after a
\* delivery.
create_order_published_twice(t, delivered) ==
  /\ At(t, "create_order", "publish")
  /\ published' = IF delivered THEN published \o <<t.local.event, t.local.event>>
                  ELSE published
  /\ Finish(t, ReturnOk(t, IF delivered THEN CallsOk(t, [delivered |-> TRUE])
                        ELSE CallsFailed(t, [delivered |-> FALSE]),
                        Created(t.local.created_order)))
  /\ metrics' = CountCreated(metrics)
  /\ UNCHANGED <<store, nats_client, clock, arrived>>

\* create_order, after the publish: a failure is logged and ignored.
create_order_published(t, delivered) ==
  /\ At(t, "create_order", "publish")
  /\ published' = IF delivered THEN Append(published, t.local.event)
                  ELSE published
  /\ Finish(t, ReturnOk(t, IF delivered THEN CallsOk(t, [delivered |-> TRUE])
                        ELSE CallsFailed(t, [delivered |-> FALSE]),
                        Created(t.local.created_order)))
  /\ metrics' = CountCreated(metrics)
  /\ UNCHANGED <<store, nats_client, clock, arrived>>

\* Every quantity for the orderable pair, one quantity for the others.
ValidatedPayloads ==
  {p \in [user_id : UserIds, product_id : ProductIds, quantity : Quantities \ {0}] :
     \/ p.user_id \in KnownUsers /\ p.product_id \in KnownProducts
     \/ p.quantity = 2 /\ (p.user_id \in KnownUsers \/ p.product_id \in KnownProducts)}

\* create_validated_order, up to the user-service call's send().await
create_validated_order(payload) ==
  /\ CanStart
  /\ task' = Spawn(Begin("create_validated_order", payload, None, "user"))
  /\ arrived' = [arrived EXCEPT !.api = @ + 1]
  /\ UNCHANGED <<store, published, metrics, nats_client, clock>>
  /\ NoResponse

\* Mutant of create_validated_order_user: the handler goes on to the inventory
\* lookup whatever the user-service answered.
create_validated_order_user_ungated(t, reply) ==
  /\ At(t, "create_validated_order", "user")
  /\ task' = Resume(t, [Suspend(t, reply, [user |-> [id |-> t.payload.user_id,
                                                     name |-> "", email |-> ""]],
                                "inventory")
                        EXCEPT !.calls = Append(t.calls,
                                 IF reply.sent /\ is_success(reply.status)
                                 THEN Call("user", reply)
                                 ELSE Failed("user", reply))])
  /\ NoResponse
  /\ UNCHANGED <<store, published, metrics, nats_client, clock, arrived>>

\* create_validated_order, Step 1: the user-service call ends.
create_validated_order_user(t, reply) ==
  /\ At(t, "create_validated_order", "user")
  /\ LET payload == t.payload
     IN IF ~reply.sent
        THEN Finish(t, ReturnErr(t, CallsFailed(t, reply),
               HttpError(Format("Failed to call user-service: {}", <<reply.cause>>))))
        ELSE IF ~is_success(reply.status)
        THEN Finish(t, ReturnErr(t, CallsFailed(t, reply), UserNotFound(payload.user_id)))
        ELSE IF ~ParseUser(reply.body).ok
        THEN Finish(t, ReturnErr(t, CallsFailed(t, reply),
               HttpError(Format("Failed to parse user response: {}",
                                <<ParseUser(reply.body).cause>>))))
        ELSE /\ task' = Resume(t, Suspend(t, reply, [user |-> ParseUser(reply.body).value],
                                              "inventory"))
             /\ NoResponse
  /\ UNCHANGED <<store, published, metrics, nats_client, clock, arrived>>

\* create_validated_order, Step 2: the inventory-service call ends; the price is
\* resolved, the stock is checked, the order is built and insert_one is issued.
create_validated_order_inventory(t, reply) ==
  /\ At(t, "create_validated_order", "inventory")
  /\ LET payload == t.payload
         parsed == ParseInventoryItem(reply.body)
     IN IF ~reply.sent
        THEN /\ Finish(t, ReturnErr(t, CallsFailed(t, reply),
                  HttpError(Format("Failed to call inventory-service: {}",
                                   <<reply.cause>>))))
             /\ UNCHANGED clock
        ELSE IF ~is_success(reply.status)
        THEN /\ Finish(t, ReturnErr(t, CallsFailed(t, reply),
                  HttpError(Format("Product '{}' not found in inventory",
                                   <<payload.product_id>>))))
             /\ UNCHANGED clock
        ELSE IF ~parsed.ok
        THEN /\ Finish(t, ReturnErr(t, CallsFailed(t, reply),
                  HttpError(Format("Failed to parse inventory response: {}",
                                   <<parsed.cause>>))))
             /\ UNCHANGED clock
        ELSE LET inventory_item == parsed.value
                 price == ResolvePrice(inventory_item)
             IN IF InsufficientStock(inventory_item, payload.quantity)
                THEN /\ Finish(t, ReturnErr(t,
                          CallsOk(t, reply)
                            \o <<Failed("stock_check",
                                        [available |-> inventory_item.quantity,
                                         requested |-> payload.quantity])>>,
                          HttpError(Format(
                            "Insufficient inventory: requested {}, available {}",
                            <<payload.quantity, inventory_item.quantity>>))))
                     /\ UNCHANGED clock
                ELSE LET order == [id |-> None,
                                   user_id |-> payload.user_id,
                                   product_name |-> inventory_item.product_name,
                                   quantity |-> payload.quantity,
                                   total_price |-> price * payload.quantity,
                                   status |-> "pending",
                                   created_at |-> clock]
                     IN /\ task' = Resume(t,
                              [Suspend(t, reply,
                                       t.local @@ [inventory_item |-> inventory_item,
                                                   order |-> order], "insert")
                               EXCEPT !.calls =
                                 Append(@, Call("stock_check",
                                                [available |-> inventory_item.quantity,
                                                 requested |-> payload.quantity]))])
                        /\ clock' = clock + ClockStep
                        /\ NoResponse
  /\ UNCHANGED <<store, published, metrics, nats_client, arrived>>

\* Mutant of create_validated_order_insert_failed: the failure is logged and
\* ignored, as a publish failure is.
create_validated_order_insert_failure_ignored(t, cause) ==
  /\ At(t, "create_validated_order", "insert")
  /\ Finish(t, ReturnOk(t, CallsFailed(t, [cause |-> cause]), Created(t.local.order)))
  /\ metrics' = CountCreated(metrics)
  /\ UNCHANGED <<store, published, nats_client, clock, arrived>>

\* create_validated_order, Step 3: insert_one fails, `?` returns DatabaseError.
create_validated_order_insert_failed(t, cause) ==
  /\ At(t, "create_validated_order", "insert")
  /\ Finish(t, ReturnErr(t, CallsFailed(t, [cause |-> cause]), DatabaseError(cause)))
  /\ UNCHANGED <<store, published, metrics, nats_client, clock, arrived>>

\* The summed quantity of the orders of one product in a collection.
RECURSIVE Reserved(_, _)
Reserved(coll, product_name) ==
  IF coll = <<>> THEN 0
  ELSE (IF Head(coll).product_name = product_name THEN Head(coll).quantity ELSE 0)
       + Reserved(Tail(coll), product_name)

\* Mutant of create_validated_order_inserted: the order is persisted only while
\* the orders of the product, this one included, stay within the stock read.
create_validated_order_inserted_reserving(t) ==
  /\ At(t, "create_validated_order", "insert")
  /\ LET order_id == InsertedId(store)
         local == t.local
         created_order == [local.order EXCEPT !.id = Some(order_id)]
     IN IF Reserved(store, local.order.product_name) + local.order.quantity
             > local.inventory_item.quantity
        THEN /\ Finish(t, ReturnErr(t, CallsFailed(t, [cause |-> "reserved"]),
                  HttpError(Format("Insufficient inventory: requested {}, available {}",
                                   <<local.order.quantity,
                                     local.inventory_item.quantity>>))))
             /\ UNCHANGED <<store, metrics>>
        ELSE /\ store' = InsertOne(store, local.order)
             /\ Finish(t, ReturnOk(t, CallsOk(t, [inserted_id |-> order_id]),
                                   Created(created_order)))
             /\ metrics' = CountCreated(metrics)
  /\ UNCHANGED <<published, nats_client, clock, arrived>>

\* create_validated_order, Step 3: insert_one succeeds; the handler goes on to
\* client.publish(..).await, or to its end when there is no NATS client.
create_validated_order_inserted(t) ==
  /\ At(t, "create_validated_order", "insert")
  /\ store' = InsertOne(store, t.local.order)
  /\ LET order_id == InsertedId(store)
         payload == t.payload
         local == t.local
         created_order == [local.order EXCEPT !.id = Some(order_id)]
     IN IF IsSome(nats_client)
        THEN LET event == [event |-> "order.created",
                           order_id |-> oid_to_string(order_id),
                           user_id |-> payload.user_id,
                           user_name |-> local.user.name,
                           product_id |-> payload.product_id,
                           product_name |-> local.inventory_item.product_name,
                           quantity |-> payload.quantity,
                           total_price |-> local.order.total_price]
             IN /\ task' = Resume(t, Suspend(t, [inserted_id |-> order_id],
                                                   [created_order |-> created_order,
                                                    event |-> event], "publish"))
                /\ UNCHANGED metrics /\ NoResponse
        ELSE /\ Finish(t, ReturnOk(t, CallsOk(t, [inserted_id |-> order_id]),
                                   Created(created_order)))
             /\ metrics' = CountCreated(metrics)
  /\ UNCHANGED <<published, nats_client, clock, arrived>>

\* Mutant of create_validated_order_published: a publish failure is returned
\* to the caller.
create_validated_order_published_or_fail(t, delivered) ==
  /\ At(t, "create_validated_order", "publish")
  /\ published' = IF delivered THEN Append(published, t.local.event)
                  ELSE published
  /\ IF delivered
     THEN /\ Finish(t, ReturnOk(t, CallsOk(t, [delivered |-> TRUE]),
                                Created(t.local.created_order)))
          /\ metrics' = CountCreated(metrics)
     ELSE /\ Finish(t, ReturnErr(t, CallsFailed(t, [delivered |-> FALSE]),
                                 InternalError(Format("publish failed", <<>>))))
          /\ UNCHANGED metrics
  /\ UNCHANGED <<store, nats_client, clock, arrived>>

\* create_validated_order, after the publish: a failure is logged and ignored.
create_validated_order_published(t, delivered) ==
  /\ At(t, "create_validated_order", "publish")
  /\ published' = IF delivered THEN Append(published, t.local.event)
                  ELSE published
  /\ Finish(t, ReturnOk(t, IF delivered THEN CallsOk(t, [delivered |-> TRUE])
                        ELSE CallsFailed(t, [delivered |-> FALSE]),
                        Created(t.local.created_order)))
  /\ metrics' = CountCreated(metrics)
  /\ UNCHANGED <<store, nats_client, clock, arrived>>

\* create_validated_order: the collaborator the task is calling never answers.
\* The client is reqwest::Client::new(), which sets no timeout, so send().await
\* stays pending and the handler does not go on.
send_never_completes(t) ==
  /\ t \in InFlight
  /\ t.kind = "create_validated_order"
  /\ t.pc \in {"user", "inventory"}
  /\ ~t.hung
  /\ task' = Resume(t, [t EXCEPT !.hung = TRUE])
  /\ NoResponse
  /\ UNCHANGED <<store, published, metrics, nats_client, clock, arrived>>

\* fn default_limit() -> i64
default_limit == 100

\* Query<ListQuery>: skip is #[serde(default)], limit defaults to default_limit().
ParseListQuery(raw) ==
  [skip |-> IF "skip" \in DOMAIN raw THEN raw.skip ELSE 0,
   limit |-> IF "limit" \in DOMAIN raw THEN raw.limit ELSE default_limit]

Min(a, b) == IF a < b THEN a ELSE b
Abs(a) == IF a < 0 THEN -a ELSE a

\* Mutant of Find: the limit is applied before the skip.
FindLimitBeforeSkip(coll, skip, limit) ==
  LET n == IF limit = 0 THEN Len(coll) ELSE Min(Abs(limit), Len(coll))
      from == Min(skip, n) + 1
  IN SubSeq(coll, from, n)

\* collection.find(None, skip, limit): natural order; a limit of 0 means no
\* limit, a negative one asks for at most |limit| documents.
Find(coll, skip, limit) ==
  LET from == Min(skip, Len(coll)) + 1
      rest == Len(coll) - from + 1
      n == IF limit = 0 THEN rest ELSE Min(Abs(limit), rest)
  IN SubSeq(coll, from, from + n - 1)

\* collection.find_one({"_id": oid})
FindOne(coll, oid) ==
  IF \E i \in 1..Len(coll) : coll[i]._id = Some(oid)
  THEN Some(coll[CHOOSE i \in 1..Len(coll) : coll[i]._id = Some(oid)])
  ELSE None

ListQueries ==
  {<<>>, [skip |-> 1], [skip |-> 1, limit |-> 1], [skip |-> 0, limit |-> 0]}

\* list_orders, up to collection.find(..).await
list_orders(raw) ==
  /\ CanStart
  /\ task' = Spawn(Begin("list_orders", raw, [query |-> ParseListQuery(raw)], "find"))
  /\ arrived' = [arrived EXCEPT !.api = @ + 1]
  /\ UNCHANGED <<store, published, metrics, nats_client, clock>>
  /\ NoResponse

\* list_orders: find fails, `?` returns DatabaseError.
list_orders_find_failed(t, cause) ==
  /\ At(t, "list_orders", "find")
  /\ Finish(t, ReturnErr(t, CallsFailed(t, [cause |-> cause]), DatabaseError(cause)))
  /\ UNCHANGED <<store, published, metrics, nats_client, clock, arrived>>

\* list_orders: the cursor is drained; an item that fails to read is logged and
\* left out.  `broken` is the number of items at the cursor's end that fail.
\* The JSON array of the response is held in the field `orders` of the body.
list_orders_found(t, broken) ==
  /\ At(t, "list_orders", "find")
  /\ LET query == t.local.query
         docs == Find(store, query.skip, query.limit)
         read == SubSeq(docs, 1, Len(docs) - Min(broken, Len(docs)))
         orders == [i \in 1..Len(read) |-> OrderToJson(DocumentToOrder(read[i]))]
     IN Finish(t, ReturnOk(t, CallsOk(t, [broken |-> Len(docs) - Len(read)]),
                           OkJson([orders |-> orders])))
  /\ metrics' = CountQueried(metrics)
  /\ UNCHANGED <<store, published, nats_client, clock, arrived>>

LowerA == oid_to_string(FirstOid)
UpperA == [LowerA EXCEPT ![OidHexLen] = "A"]

\* Identifier strings a caller may put in the path.
PathIds ==
  {LowerA, UpperA, oid_to_string(FirstOid + 5),
   <<"x", "y", "z">>, [LowerA EXCEPT ![1] = "g"]}

\* get_order, up to collection.find_one(..).await; a string that is no ObjectId
\* ends the handler before any call.
get_order(id) ==
  /\ CanStart
  /\ LET parsed == parse_str(id)
     IN IF ~parsed.ok
        THEN /\ Respond(Exchange("get_order", id, <<>>,
                                   Err(InternalError(Format("Invalid ID: {}",
                                                            <<parsed.cause>>)))))
             /\ UNCHANGED task
        ELSE /\ task' = Spawn(Begin("get_order", id, [object_id |-> parsed.oid],
                                    "find_one"))
             /\ NoResponse
  /\ arrived' = [arrived EXCEPT !.api = @ + 1]
  /\ UNCHANGED <<store, published, metrics, nats_client, clock>>

\* get_order: find_one fails, `?` returns DatabaseError.
get_order_find_failed(t, cause) ==
  /\ At(t, "get_order", "find_one")
  /\ Finish(t, ReturnErr(t, CallsFailed(t, [cause |-> cause]), DatabaseError(cause)))
  /\ UNCHANGED <<store, published, metrics, nats_client, clock, arrived>>

\* get_order: find_one answers; None becomes NotFound.
get_order_found(t) ==
  /\ At(t, "get_order", "find_one")
  /\ LET found == FindOne(store, t.local.object_id)
     IN IF ~IsSome(found)
        THEN /\ Finish(t, ReturnErr(t, CallsOk(t, [found |-> FALSE]), NotFound))
             /\ UNCHANGED metrics
        ELSE /\ Finish(t, ReturnOk(t, CallsOk(t, [found |-> TRUE]),
                              OkJson(OrderToJson(DocumentToOrder(Unwrap(found))))))
             /\ metrics' = CountQueried(metrics)
  /\ UNCHANGED <<store, published, nats_client, clock, arrived>>

\* health_check, up to db.list_collection_names(..).await
health_check ==
  /\ CanStart
  /\ task' = Spawn(Begin("health_check", None, None, "list_collection_names"))
  /\ arrived' = [arrived EXCEPT !.ops = @ + 1]
  /\ UNCHANGED <<store, published, metrics, nats_client, clock>>
  /\ NoResponse

\* Mutant of health_check_probed: the overall status asks for the bus as well.
health_check_probed_all_healthy(t, reachable, connected) ==
  /\ At(t, "health_check", "list_collection_names")
  /\ LET db_status == IF reachable THEN "connected" ELSE "error"
         nats_status == IF IsSome(nats_client) /\ connected
                        THEN "connected" ELSE "disconnected"
         health == [status |-> IF db_status = "connected" /\ nats_status = "connected"
                               THEN "healthy" ELSE "unhealthy",
                    service |-> "order-service",
                    database |-> db_status,
                    nats |-> nats_status]
     IN Finish(t, ReturnOk(t, IF reachable
                              THEN CallsOk(t, [reachable |-> TRUE])
                              ELSE CallsFailed(t, [reachable |-> FALSE]),
                           OkJson(health)))
  /\ UNCHANGED <<store, published, metrics, nats_client, clock, arrived>>

\* health_check: the probe ends; `connected` is what connection_state() says
\* of the NATS client, when there is one.
health_check_probed(t, reachable, connected) ==
  /\ At(t, "health_check", "list_collection_names")
  /\ LET db_status == IF reachable THEN "connected" ELSE "error"
         nats_status == IF IsSome(nats_client) /\ connected
                        THEN "connected" ELSE "disconnected"
         health == [status |-> IF db_status = "connected"
                               THEN "healthy" ELSE "unhealthy",
                    service |-> "order-service",
                    database |-> db_status,
                    nats |-> nats_status]
     IN Finish(t, ReturnOk(t, IF reachable
                              THEN CallsOk(t, [reachable |-> TRUE])
                              ELSE CallsFailed(t, [reachable |-> FALSE]),
                           OkJson(health)))
  /\ UNCHANGED <<store, published, metrics, nats_client, clock, arrived>>

\* metrics_handler: the counters in the text exposition format.
metrics_handler ==
  /\ CanStart
  /\ Respond(Exchange("metrics_handler", None, <<>>, Ok(OkJson(metrics))))
  /\ arrived' = [arrived EXCEPT !.ops = @ + 1]
  /\ UNCHANGED <<store, published, metrics, nats_client, clock, task>>

\* ------------------------------------------------------- specification

\* What the collaborator may answer to the call task t is waiting on.
UserServiceAnswers(t) ==
  IF At(t, "create_validated_order", "user") /\ ~t.hung
  THEN UserReplies(t.payload.user_id) ELSE {}

InventoryServiceAnswers(t) ==
  IF At(t, "create_validated_order", "inventory") /\ ~t.hung
  THEN InventoryReplies(t.payload.product_id) ELSE {}

Next ==
  \/ \E p \in SimplePayloads : create_order(p)
  \/ \E t \in InFlight : \E c \in Causes : create_order_insert_failed(t, c)
  \/ \E t \in InFlight : create_order_inserted(t)
  \/ \E t \in InFlight : \E d \in BOOLEAN : create_order_published(t, d)
  \/ \E p \in ValidatedPayloads : create_validated_order(p)
  \/ \E t \in InFlight : \E reply \in UserServiceAnswers(t) :
       create_validated_order_user(t, reply)
  \/ \E t \in InFlight : \E reply \in InventoryServiceAnswers(t) :
       create_validated_order_inventory(t, reply)
  \/ \E t \in InFlight : send_never_completes(t)
  \/ \E t \in InFlight : \E c \in Causes : create_validated_order_insert_failed(t, c)
  \/ \E t \in InFlight : create_validated_order_inserted(t)
  \/ \E t \in InFlight : \E d \in BOOLEAN : create_validated_order_published(t, d)
  \/ \E q \in ListQueries : list_orders(q)
  \/ \E t \in InFlight : \E c \in Causes : list_orders_find_failed(t, c)
  \/ \E t \in InFlight : \E broken \in {0, 1} : list_orders_found(t, broken)
  \/ \E id \in PathIds : get_order(id)
  \/ \E t \in InFlight : \E c \in Causes : get_order_find_failed(t, c)
  \/ \E t \in InFlight : get_order_found(t)
  \/ health_check
  \/ \E t \in InFlight : \E reachable, connected \in BOOLEAN :
       health_check_probed(t, reachable, connected)
  \/ metrics_handler

Spec == Init /\ [][Next]_vars

\* A step of a handler that is in flight: an await of its came back.
Progress ==
  \E t \in InFlight :
    \/ \E c \in Causes : create_order_insert_failed(t, c)
    \/ create_order_inserted(t)
    \/ \E d \in BOOLEAN : create_order_published(t, d)
    \/ \E reply \in UserServiceAnswers(t) : create_validated_order_user(t, reply)
    \/ \E reply \in InventoryServiceAnswers(t) :
         create_validated_order_inventory(t, reply)
    \/ create_validated_order_inserted(t)
    \/ \E d \in BOOLEAN : create_validated_order_published(t, d)
    \/ \E broken \in {0, 1} : list_orders_found(t, broken)
    \/ get_order_found(t)
    \/ \E reachable, connected \in BOOLEAN :
         health_check_probed(t, reachable, connected)

\* The runtime polls every task whose await has come back, and every call that
\* is answered at all is answered in finite time.  Every such step changes the
\* bag of tasks.
LiveSpec == Spec /\ WF_task(Progress)

\* ------------------------------------------------------------ properties

\* What the calls in a record came to, judged from what came back alone.
StatusIsSuccess(reply) == reply.sent /\ reply.status \in 200..299

Succeeded(call) ==
  CASE call.step = "user" ->
         StatusIsSuccess(call.reply)
         /\ {"id", "name", "email"} \subseteq DOMAIN call.reply.body
    [] call.step = "inventory" ->
         StatusIsSuccess(call.reply)
         /\ {"id", "product_name", "sku", "quantity", "location"}
              \subseteq DOMAIN call.reply.body
    [] call.step = "stock_check" -> call.reply.requested <= call.reply.available
    [] call.step = "insert" -> "inserted_id" \in DOMAIN call.reply
    [] call.step = "publish" -> call.reply.delivered
    [] OTHER -> FALSE

Steps(calls) == [i \in 1..Len(calls) |-> calls[i].step]

IsPrefix(s, full) ==
  Len(s) <= Len(full) /\ \A i \in 1..Len(s) : s[i] = full[i]

ValidatedSteps == <<"user", "inventory", "stock_check", "insert", "publish">>

Validated(x) == x.kind = "create_validated_order"

HasStep(calls, step) == \E i \in 1..Len(calls) : calls[i].step = step

\* The request that just ended is the only one the service has received.
OnlyRequest == arrived.api + arrived.ops = 1 /\ task = EmptyBag

\* Nothing was written: the collection is as main() found it, nothing was published.
NothingWritten == store \in {<<>>, EarlierOrders} /\ published = <<>>

\* The JSON of a stored document.
JsonOfDocument(d) ==
  [_id |-> Some(oid_to_string(Unwrap(d._id))), user_id |-> d.user_id,
   product_name |-> d.product_name, quantity |-> d.quantity,
   total_price |-> d.total_price, status |-> d.status, created_at |-> d.created_at]

UserStatusRejected ==
  /\ Validated(last)
  /\ last.calls[1].step = "user"
  /\ last.calls[1].reply.sent
  /\ last.calls[1].reply.status \notin 200..299

\* C2: a validated create whose user lookup gets a non-success status ends with
\* 400 and UserNotFound(user id); it performed no insert and no publish, and the
\* collection and the bus are as they were.
C2_UnknownUserRejected ==
  UserStatusRejected =>
    /\ last.status = 400
    /\ last.result = [ok |-> FALSE, err |-> UserNotFound(last.payload.user_id)]
    /\ last.body = [error |-> Format("User {} not found", <<last.payload.user_id>>)]
    /\ Steps(last.calls) = <<"user">>
    /\ OnlyRequest => NothingWritten

\* C2 witness: the user-service answered 404 for a user it does not know.
C2_Witness ==
  /\ UserStatusRejected
  /\ last.payload.user_id \notin KnownUsers
  /\ last.calls[1].reply.status = 404
  /\ OnlyRequest

\* The inventory-service answered the request that just ended, for a product it
\* does not know, with a non-success status.
ProductStatusRejected ==
  /\ Validated(last)
  /\ last.payload.product_id \notin KnownProducts
  /\ Len(last.calls) >= 2
  /\ Succeeded(last.calls[1])
  /\ last.calls[2].step = "inventory"
  /\ last.calls[2].reply.sent
  /\ last.calls[2].reply.status \notin 200..299

\* C3: a validated create with a known user whose inventory lookup gets a
\* non-success status ends with 400, nothing persisted, nothing published.
C3_UnknownProductIs400 ==
  ProductStatusRejected =>
    /\ last.status = 400
    /\ Steps(last.calls) = <<"user", "inventory">>
    /\ OnlyRequest => NothingWritten

\* The stock check of the request that just ended found less than was asked for.
StockShort ==
  /\ Validated(last)
  /\ Len(last.calls) >= 3
  /\ last.calls[3].step = "stock_check"
  /\ last.calls[3].reply.requested > last.calls[3].reply.available

\* C4: a validated create asking for more than is available ends with 400 and
\* InsufficientInventory carrying the requested and available numbers, nothing
\* persisted, nothing published; asking for exactly what is available passes.
C4_InsufficientInventoryIs400 ==
  /\ StockShort =>
       /\ last.status = 400
       /\ ~last.result.ok
       /\ last.result.err.kind = "InsufficientInventory"
       /\ last.result.err.requested = last.payload.quantity
       /\ last.result.err.available = last.calls[2].reply.body.quantity
       /\ Steps(last.calls) = <<"user", "inventory", "stock_check">>
       /\ OnlyRequest => NothingWritten
  /\ (/\ Validated(last)
      /\ Len(last.calls) >= 3
      /\ last.calls[3].reply.requested = last.calls[3].reply.available)
     => Len(last.calls) >= 4

\* The publish of the request that just ended failed after a successful insert.
PublishFailed ==
  /\ Validated(last)
  /\ Len(last.calls) = 5
  /\ Succeeded(last.calls[4])
  /\ last.calls[5].step = "publish"
  /\ ~last.calls[5].reply.delivered

\* C5: when the gates pass and the insert succeeds but the publish fails, the
\* validated create still ends with 201 and the persisted order, which stays
\* in the collection.
C5_PublishFailureSwallowed ==
  PublishFailed =>
    /\ last.status = 201
    /\ \E i \in 1..Len(store) :
         /\ store[i]._id = Some(last.calls[4].reply.inserted_id)
         /\ last.body = JsonOfDocument(store[i])

\* C5 witness: a validated create whose publish failed has ended.
C5_Witness == PublishFailed

\* The insert of the request that just ended failed.
InsertFailed ==
  /\ Validated(last)
  /\ \E i \in 1..Len(last.calls) :
       last.calls[i].step = "insert" /\ ~Succeeded(last.calls[i])

\* C6: when the insert of a validated create fails, the request ends with
\* DatabaseError and 500, no order is added and no publish is performed.
C6_InsertFailureAborts ==
  InsertFailed =>
    /\ last.status = 500
    /\ ~last.result.ok
    /\ last.result.err.kind = "DatabaseError"
    /\ last.body = [error |-> Format("Database error", <<>>)]
    /\ Steps(last.calls) = <<"user", "inventory", "stock_check", "insert">>
    /\ OnlyRequest => NothingWritten

\* C6 witness: a validated create whose insert failed is the only request so far.
C6_Witness == InsertFailed /\ OnlyRequest

\* The unit price the inventory item's JSON stands for.
UnitPriceOf(item) ==
  IF "price" \in DOMAIN item /\ item.price > 0 THEN item.price ELSE 99999

\* C7: the order a successful validated create persists and returns has total
\* price = unit price x requested quantity, the unit price being the item's
\* price when strictly positive and 999.99 otherwise, and carries the product
\* name the inventory service gave.
C7_TotalPrice ==
  (Validated(last) /\ last.status = 201) =>
    LET item == last.calls[2].reply.body
        total == UnitPriceOf(item) * last.payload.quantity
    IN /\ last.body.total_price = total
       /\ last.body.product_name = item.product_name
       /\ \E i \in 1..Len(store) :
            /\ store[i]._id = Some(last.calls[4].reply.inserted_id)
            /\ store[i].total_price = total
            /\ store[i].product_name = item.product_name
            /\ store[i].quantity = last.payload.quantity

\* C7 witness: a validated create succeeded on an item whose price is zero.
C7_Witness ==
  /\ Validated(last)
  /\ last.status = 201
  /\ "price" \in DOMAIN last.calls[2].reply.body
  /\ last.calls[2].reply.body.price = 0
  /\ last.payload.quantity = 2

\* An identifier string in lower case.
LowerOf(c) ==
  IF \E d \in 1..16 : HexUpper[d] = c
  THEN HexLower[CHOOSE d \in 1..16 : HexUpper[d] = c] ELSE c
LowerCase(s) == [i \in 1..Len(s) |-> LowerOf(s[i])]

\* The store answered the get that just ended.
GetAnswered ==
  /\ last.kind = "get_order"
  /\ Len(last.calls) = 1
  /\ "found" \in DOMAIN last.calls[1].reply

ListAnswered ==
  /\ last.kind = "list_orders"
  /\ Len(last.calls) = 1
  /\ "broken" \in DOMAIN last.calls[1].reply
  /\ last.calls[1].reply.broken = 0

\* C9: list(skip, limit) with limit > 0 returns the orders at insertion
\* positions skip+1 .. min(n, skip+limit) in insertion order; skip is 0 and
\* limit 100 when the caller gives none.
C9_ListWindow ==
  ListAnswered =>
    LET skip == IF "skip" \in DOMAIN last.payload THEN last.payload.skip ELSE 0
        limit == IF "limit" \in DOMAIN last.payload THEN last.payload.limit ELSE 100
        n == Len(store)
        upto == IF skip + limit < n THEN skip + limit ELSE n
    IN limit > 0 =>
         /\ last.status = 200
         /\ Len(last.body.orders) = (IF upto > skip THEN upto - skip ELSE 0)
         /\ \A i \in 1..Len(last.body.orders) :
              last.body.orders[i] = JsonOfDocument(store[skip + i])

\* C9 witness: a list with skip 1 and limit 1 over at least three orders.
C9_Witness ==
  /\ ListAnswered
  /\ last.payload = [skip |-> 1, limit |-> 1]
  /\ Len(store) >= 3
  /\ Len(last.body.orders) = 1

\* The 24-character hexadecimal strings.
HexDigits ==
  {"0","1","2","3","4","5","6","7","8","9","a","b","c","d","e","f",
   "A","B","C","D","E","F"}
IsIdentifier(s) == Len(s) = 24 /\ \A i \in 1..Len(s) : s[i] \in HexDigits

\* C10: a get with a string that is no identifier ends with InternalError and
\* 500 without any store query; with an identifier it returns the stored order
\* of that identifier, or 404 NotFound when there is none.
C10_GetById ==
  /\ (last.kind = "get_order" /\ ~IsIdentifier(last.payload)) =>
       /\ last.status = 500
       /\ ~last.result.ok
       /\ last.result.err.kind = "InternalError"
       /\ last.calls = <<>>
  /\ (last.kind = "get_order" /\ IsIdentifier(last.payload)) =>
       /\ Steps(last.calls) = <<"find_one">>
       /\ GetAnswered =>
            IF \E i \in 1..Len(store) :
                 oid_to_string(Unwrap(store[i]._id)) = LowerCase(last.payload)
            THEN /\ last.status = 200
                 /\ \E i \in 1..Len(store) : last.body = JsonOfDocument(store[i])
                 /\ Unwrap(last.body._id) = LowerCase(last.payload)
            ELSE /\ last.status = 404
                 /\ last.result = [ok |-> FALSE, err |-> NotFound]

\* C10 witness: a get with a 24-character string that is not hexadecimal.
C10_Witness ==
  /\ last.kind = "get_order"
  /\ Len(last.payload) = 24
  /\ ~IsIdentifier(last.payload)
  /\ last.status = 500


\* The two create handlers.
CreateKinds == {"create_order", "create_validated_order"}

\* The insert of the ended request x succeeded.
InsertSucceeded(x) ==
  \E i \in 1..Len(x.calls) : x.calls[i].step = "insert" /\ Succeeded(x.calls[i])

\* The identifier the store gave the order of the ended request x.
InsertedIdOf(x) ==
  x.calls[CHOOSE i \in 1..Len(x.calls) : x.calls[i].step = "insert"].reply.inserted_id

\* C11: when there is no NATS client, no create ever performs a publish, and a
\* create (simple or validated) whose insert succeeded still ends with 201 and
\* the persisted order.
C11_AbsentBusIsNoOp ==
  ~IsSome(nats_client) =>
    /\ published = <<>>
    /\ \A t \in InFlight : t.pc # "publish"
    /\ (last.kind \in CreateKinds /\ InsertSucceeded(last)) =>
         /\ ~HasStep(last.calls, "publish")
         /\ last.status = 201
         /\ \E i \in 1..Len(store) :
              /\ store[i]._id = Some(InsertedIdOf(last))
              /\ last.body = JsonOfDocument(store[i])

\* C11 witness: without a NATS client a validated create ended with 201.
C11_Witness ==
  /\ ~IsSome(nats_client)
  /\ Validated(last)
  /\ InsertSucceeded(last)
  /\ last.status = 201


\* The errors whose payload is an internal cause.
CauseKinds == {"DatabaseError", "InternalError", "HttpError"}

\* Cause texts a run may differ in.
CauseTexts ==
  Causes \cup TransportCauses \cup {"invalid length", "invalid character"}

\* The errors that differ from e in the internal cause only.
SameKindErrors(e) ==
  CASE e.kind = "DatabaseError" -> {DatabaseError(c) : c \in CauseTexts}
    [] e.kind = "InternalError" ->
         {InternalError(Format(e.msg.fmt, <<c>>)) : c \in CauseTexts}
    [] e.kind = "HttpError" ->
         {HttpError(Format(e.msg.fmt, <<c>>)) : c \in CauseTexts}
    [] OTHER -> {e}

\* The request that just ended failed with an error that carries a cause.
FailedWithCause ==
  /\ last.kind # "none"
  /\ ~last.result.ok
  /\ last.result.err.kind \in CauseKinds

\* C12: the response to a request that failed with DatabaseError,
\* InternalError or HttpError is the one the same request would have got with
\* any other cause text: status and body depend on the kind of error only.
C12_CauseIndependent ==
  FailedWithCause =>
    \A e \in SameKindErrors(last.result.err) :
      /\ e.kind = last.result.err.kind
      /\ into_response(e) = [status |-> last.status, body |-> last.body]

\* C12 witness: a store failure with one cause text has been answered, and an
\* error of the same kind with another cause text exists.
C12_Witness ==
  /\ FailedWithCause
  /\ last.result.err = DatabaseError("connection reset")
  /\ \E e \in SameKindErrors(last.result.err) : e # last.result.err


\* A health check has just been answered.
HealthAnswered == last.kind = "health_check"

\* C13: the health check answers 200 whatever it found, and its status field
\* is "healthy" exactly when the store probe succeeded, "unhealthy" otherwise,
\* whether the bus is connected, disconnected or absent.
C13_HealthFollowsStore ==
  HealthAnswered =>
    /\ last.status = 200
    /\ last.body.status \in {"healthy", "unhealthy"}
    /\ last.body.status = "healthy" <=> last.calls[1].reply.reachable
    /\ last.body.nats \in {"connected", "disconnected"}

\* C13 witness: the store answered the probe while the bus was not connected.
C13_Witness ==
  /\ HealthAnswered
  /\ last.calls[1].reply.reachable
  /\ last.body.nats = "disconnected"
  /\ last.body.status = "healthy"


\* A validated create is waiting on a collaborator that never answers.
HungCall == \E t \in InFlight : Validated(t) /\ t.hung

\* A validated create has just ended with 500 on a call that did not complete.
TimedOut ==
  /\ Validated(last)
  /\ last.status = 500
  /\ last.calls # <<>>
  /\ LET call == last.calls[Len(last.calls)]
     IN call.step \in {"user", "inventory"} /\ ~call.reply.sent

\* C14: a validated create whose user or inventory call never receives a
\* response still ends, with a 500 for a transport failure.
C14_HungCallTimesOut == HungCall ~> TimedOut


\* The validated create x (a task or an ended request) passed the stock check.
PassedStockCheck(x) ==
  /\ Len(x.calls) >= 3
  /\ x.calls[3].step = "stock_check"
  /\ Succeeded(x.calls[3])

\* C15: the sufficiency check is read-then-decide without reservation.  A
\* validated create is past the check as soon as its own quantity is within
\* the stock it read, and once past it nothing but a store failure keeps its
\* order from being persisted; so two concurrent requests for one product, each
\* within the stock and together above it, are both persisted.
C15_CheckWithoutReservation ==
  /\ \A t \in InFlight :
       (Validated(t) /\ t.pc \in {"insert", "publish"}) =>
         /\ PassedStockCheck(t)
         /\ t.calls[3].reply.requested = t.payload.quantity
         /\ t.calls[3].reply.available = t.calls[2].reply.body.quantity
  /\ (Validated(last) /\ PassedStockCheck(last)) =>
       \/ last.status = 201 /\ InsertSucceeded(last)
       \/ ~last.result.ok /\ last.result.err.kind = "DatabaseError"

\* C15 witness: two validated creates for one product are both persisted and
\* still in flight; the one that passed the check first was persisted second,
\* so both checks came before both inserts; each asked for no more than the
\* stock reported and together they asked for more.
C15_Witness ==
  \E a, b \in InFlight :
    /\ Validated(a) /\ Validated(b)
    /\ a.pc = "publish" /\ b.pc = "publish"
    /\ a.payload.product_id = b.payload.product_id
    /\ a.local.created_order.created_at < b.local.created_order.created_at
    /\ Unwrap(b.local.created_order.id) < Unwrap(a.local.created_order.id)
    /\ \A x \in {a, b} :
         \E i \in 1..Len(store) : store[i]._id = x.local.created_order.id
    /\ LET available == a.calls[3].reply.available
       IN /\ b.calls[3].reply.available = available
          /\ a.payload.quantity <= available
          /\ b.payload.quantity <= available
          /\ a.payload.quantity + b.payload.quantity > available


\* The validated create that just ended failed in its user lookup, judged from
\* what the user-service sent back.
UserLookupFailed ==
  /\ Validated(last)
  /\ last.calls # <<>>
  /\ last.calls[1].step = "user"
  /\ ~Succeeded(last.calls[1])

\* C16: in the user lookup every non-success status, 4xx or 5xx, gives
\* UserNotFound and 400, while a call that did not complete or a body that is
\* no user gives an HTTP error and 500; either way the inventory service is
\* not called and nothing is persisted.
C16_UserLookupErrors ==
  UserLookupFailed =>
    LET reply == last.calls[1].reply
    IN /\ ~last.result.ok
       /\ IF reply.sent /\ ~StatusIsSuccess(reply)
          THEN /\ last.status = 400
               /\ last.result.err = UserNotFound(last.payload.user_id)
          ELSE /\ last.status = 500
               /\ last.result.err.kind = "HttpError"
       /\ Steps(last.calls) = <<"user">>
       /\ OnlyRequest => NothingWritten

\* C16 witness: the user-service answered 500 for a user it knows.
C16_Witness ==
  /\ UserLookupFailed
  /\ last.payload.user_id \in KnownUsers
  /\ last.calls[1].reply.sent
  /\ last.calls[1].reply.status = 500
  /\ last.status = 400
  /\ OnlyRequest


\* The identifiers of the stored orders, as the events spell them.
StoredIds == {oid_to_string(Unwrap(store[i]._id)) : i \in 1..Len(store)}

\* C17: every published order.created event names an order that is in the
\* store, and no two published events name the same order.
C17_EventsFollowStore ==
  /\ \A i \in 1..Len(published) :
       /\ published[i].event = "order.created"
       /\ published[i].order_id \in StoredIds
  /\ \A i, j \in 1..Len(published) :
       published[i].order_id = published[j].order_id => i = j

\* C17 witness: a simple and a validated create have both published.
C17_Witness ==
  /\ Len(published) = 2
  /\ \E i, j \in 1..2 :
       /\ "product_id" \in DOMAIN published[i]
       /\ "product_id" \notin DOMAIN published[j]


\* C18: every order in the store has a positive quantity and a total price
\* that is not negative, whatever quantities the callers sent.
C18_QuantityPositive ==
  \A i \in 1..Len(store) :
    /\ store[i].quantity > 0
    /\ store[i].total_price >= 0


\* The handlers that only read.
ReadKinds == {"list_orders", "get_order", "health_check", "metrics_handler"}

\* C19: the store only grows, by one order at a time.  A step that changes it
\* is the insert of a create that was waiting on it; it leaves every order that
\* was there as it was, in its place, and adds one order with status
\* "pending"; no list, get, health or metrics request and no failed create
\* ends in such a step.
C19_StoreAppendOnly ==
  [][/\ Len(store') = Len(store) + 1
     /\ IsPrefix(store, store')
     /\ store'[Len(store')].status = "pending"
     /\ IsSome(store'[Len(store')]._id)
     /\ \A i \in 1..Len(store) : store[i]._id # store'[Len(store')]._id
     /\ \E t \in InFlight :
          /\ t.kind \in CreateKinds
          /\ t.pc = "insert"
          /\ store'[Len(store')].quantity = t.local.order.quantity
     /\ last'.kind \notin ReadKinds
     /\ last'.kind \in CreateKinds => last'.status = 201]_store

\* C19 witness: a list has just shown an order created in this run after the
\* orders the store held before it, all as they were.
C19_Witness ==
  /\ ListAnswered
  /\ Len(store) = Len(EarlierOrders) + 1
  /\ IsPrefix(EarlierOrders, store)
  /\ Len(last.body.orders) = Len(store)
  /\ \A i \in 1..Len(store) : last.body.orders[i] = JsonOfDocument(store[i])


\* C20: with no request in flight, requests_total equals the number of
\* requests the order endpoints have handled, failed ones included.
C20_RequestsTotalCountsAll ==
  task = EmptyBag => metrics.requests_total = arrived.api

====
